---- MODULE Spec2Model ----
(***************************************************************************)
(* Model of the instance-hierarchy panel of simview (src/src/hierarchy.cc):*)
(* the visible list entries_, the per-node UI cache entry_info_, the       *)
(* selection and scroll of the panel, search and the source-transfer flags.*)
(*                                                                         *)
(* A design is a finite table of UHDM objects.  Node ids are positive      *)
(* naturals, 0 is the null pointer.  Strings are sequences of character    *)
(* codes (ASCII), so that std::string comparison and find are computed.    *)
(***************************************************************************)
EXTENDS Integers, Sequences, FiniteSets, TLC

\* --------------------------------------------------------------------------
\* Bounds and configuration
\* --------------------------------------------------------------------------

\* Pagination limit of hierarchy.cc:18.  The source value is 100; the model
\* runs it scaled down.  Every design below is sized relative to it, so the
\* behaviour at the limit (K, K+1, 2K, 3K, 3K+1 children) is the same.
kMaxExpandInstances == 2

\* Largest viewport height (getmaxy(w_)) the model starts a panel with.
MaxWinH == 3

\* Largest window width (getmaxx(w_)); the window is this wide or one column
\* narrower.
MaxWinW == 4

\* Height of a window tall enough for a third of it to be two lines.
TallWinH == 6

K == kMaxExpandInstances

Null == 0

\* A pointer to a vector that may be nullptr (UHDM returns nullptr for an
\* absent collection).
NullVec == [null |-> TRUE, v |-> <<>>]
Vec(s) == [null |-> FALSE, v |-> s]

\* Object kinds (VpiType()).
vpiModule == "vpiModule"
vpiGenScopeArray == "vpiGenScopeArray"
vpiGenScope == "vpiGenScope"
vpiFunction == "vpiFunction"
vpiTask == "vpiTask"

\* One UHDM object.
Obj(type, name, line, parent, mods, gens, tfs, scopes) ==
  [VpiType |-> type, VpiName |-> name, VpiLineNo |-> line, VpiParent |-> parent,
   Modules |-> mods, Gen_scope_arrays |-> gens, Task_funcs |-> tfs,
   Gen_scopes |-> scopes]

Leaf(type, name, line, parent) ==
  Obj(type, name, line, parent, NullVec, NullVec, NullVec, NullVec)

Range(s) == {s[i] : i \in DOMAIN s}

\* "work@" as character codes.
WorkAt == <<119, 111, 114, 107, 64>>

\* --------------------------------------------------------------------------
\* Designs (Workspace::Get().Design()): the external, immutable object model
\* --------------------------------------------------------------------------

\* Character code of the decimal digit i.
Digit(i) == 48 + i

\* One top module "work@w" with 3K+1 sub-modules x0 .. x<3K> in source order.
\* x0 has a sub-module g which has a sub-module h (three levels below the
\* root); x<K>, the first child beyond the pagination limit, has a sub-module e.
WideNodes ==
  LET nc == 3 * K + 1
      kid(i) == i + 2
      g == nc + 2
      h == nc + 3
      e == nc + 4
      node(n) ==
        IF n = 1 THEN
          Obj(vpiModule, WorkAt \o <<119>>, 1, Null,
              Vec([i \in 1..nc |-> kid(i - 1)]), NullVec, NullVec, NullVec)
        ELSE IF n = kid(0) THEN
          Obj(vpiModule, <<120, Digit(0)>>, 10, 1, Vec(<<g>>), NullVec, NullVec, NullVec)
        ELSE IF n = kid(K) THEN
          Obj(vpiModule, <<120, Digit(K)>>, 10 + K, 1, Vec(<<e>>), NullVec, NullVec, NullVec)
        ELSE IF n <= nc + 1 THEN
          Leaf(vpiModule, <<120, Digit(n - 2)>>, 10 + (n - 2), 1)
        ELSE IF n = g THEN
          Obj(vpiModule, <<103>>, 2, kid(0), Vec(<<h>>), NullVec, NullVec, NullVec)
        ELSE IF n = h THEN Leaf(vpiModule, <<104>>, 3, g)
        ELSE Leaf(vpiModule, <<101>>, 4, kid(K))
  IN [n \in 1..(nc + 4) |-> node(n)]

\* One top module "work@n" with K+1 leaf sub-modules x0 .. x<K>.
NarrowNodes ==
  LET nc == K + 1
      node(n) ==
        IF n = 1 THEN
          Obj(vpiModule, WorkAt \o <<110>>, 1, Null,
              Vec([i \in 1..nc |-> i + 1]), NullVec, NullVec, NullVec)
        ELSE Leaf(vpiModule, <<120, Digit(n - 2)>>, 10 + n, 1)
  IN [n \in 1..(nc + 1) |-> node(n)]

\* Four top modules (TopModules() lists them in any order):
\*   1 "work@c": a sub-module m (line 5) and a function f (line 3)
\*   2 "work@a": a task t only
\*   3 "work@a": nothing below it
\*   4 "work@b": a generate array ga, whose one gen scope gs holds a module
RootsNodes ==
  <<Obj(vpiModule, WorkAt \o <<99>>, 1, Null, Vec(<<5>>), NullVec, Vec(<<6>>), NullVec),
    Obj(vpiModule, WorkAt \o <<97>>, 1, Null, NullVec, NullVec, Vec(<<7>>), NullVec),
    Leaf(vpiModule, WorkAt \o <<97>>, 1, Null),
    Obj(vpiModule, WorkAt \o <<98>>, 1, Null, NullVec, Vec(<<8>>), NullVec, NullVec),
    Leaf(vpiModule, <<109>>, 5, 1),
    Leaf(vpiFunction, <<102>>, 3, 1),
    Leaf(vpiTask, <<116>>, 2, 2),
    Obj(vpiGenScopeArray, <<103, 97>>, 2, 4, NullVec, NullVec, NullVec, Vec(<<9>>)),
    Obj(vpiGenScope, <<>>, 2, 8, Vec(<<10>>), NullVec, NullVec, NullVec),
    Leaf(vpiModule, <<117>>, 3, 9)>>

\* Four childless top modules "work@A", "work@Bx", "work@C", "work@Dx".
FlatNodes ==
  <<Leaf(vpiModule, WorkAt \o <<65>>, 1, Null),
    Leaf(vpiModule, WorkAt \o <<66, 120>>, 1, Null),
    Leaf(vpiModule, WorkAt \o <<67>>, 1, Null),
    Leaf(vpiModule, WorkAt \o <<68, 120>>, 1, Null)>>

\* A single childless top module "work@x".
SingleNodes ==
  <<Leaf(vpiModule, WorkAt \o <<120>>, 1, Null)>>

\* One top module "work@p" with K leaf sub-modules x0 .. x<K-1>: as many as
\* fit under the pagination limit.
PairNodes ==
  LET node(n) ==
        IF n = 1 THEN
          Obj(vpiModule, WorkAt \o <<112>>, 1, Null,
              Vec([i \in 1..K |-> i + 1]), NullVec, NullVec, NullVec)
        ELSE Leaf(vpiModule, <<120, Digit(n - 2)>>, 10 + n, 1)
  IN [n \in 1..(K + 1) |-> node(n)]

\* A design without top modules: TopModules() is an empty vector.
EmptyNodes == <<>>

Perms(S) ==
  {p \in [1..Cardinality(S) -> S] : \A i, j \in DOMAIN p : i # j => p[i] # p[j]}

\* The design loaded in the workspace: its object table and TopModules().
VARIABLES design, top_modules

NodeTable ==
  [wide |-> WideNodes, narrow |-> NarrowNodes, roots |-> RootsNodes,
   flat |-> FlatNodes, single |-> SingleNodes, empty |-> EmptyNodes,
   pair |-> PairNodes]

TopOrders(kind) ==
  CASE kind = "roots" -> Perms(1..4)
    [] kind = "flat" -> {<<1, 2, 3, 4>>}
    [] kind = "empty" -> {<<>>}
    [] OTHER -> {<<1>>}

N(n) == NodeTable[design][n]

\* VpiDefName(): every module of the designs is an instance of the
\* definition "work@m".
VpiDefName(n) == WorkAt \o <<109>>
Nodes == DOMAIN NodeTable[design]

\* --------------------------------------------------------------------------
\* Strings and library functions
\* --------------------------------------------------------------------------

\* std::string operator<: lexicographic comparison of the character codes.
StrLess(a, b) ==
  \E k \in 1..(Len(b)) :
    /\ \A i \in 1..(k - 1) : i <= Len(a) /\ a[i] = b[i]
    /\ \/ k > Len(a)
       \/ k <= Len(a) /\ a[k] < b[k]

\* std::string::find(needle, 0): offset of the first occurrence, -1 for npos.
Find(hay, needle) ==
  LET occ == {p \in 0..(Len(hay) - Len(needle)) :
                \A i \in 1..Len(needle) : hay[p + i] = needle[i]}
  IN IF occ = {} THEN -1 ELSE CHOOSE p \in occ : \A q \in occ : p <= q

\* StripWorklib (utils): drops the library qualifier, the text up to and
\* including the first '@' (code 64), when there is one.
StripWorklib(str) ==
  LET at == {i \in 1..Len(str) : str[i] = 64}
  IN IF at = {} THEN str
     ELSE LET first == CHOOSE i \in at : \A j \in at : i <= j
          IN SubSeq(str, first + 1, Len(str))

\* std::stable_sort under a strict weak order, given as the set `less` of the
\* pairs <<a, b>> with a before b: an element moves in front of those it is
\* less than, and elements neither less than the other keep their relative
\* order.
StableSort(s, less) ==
  LET rank(i) == 1 + Cardinality({j \in DOMAIN s :
                        \/ <<s[j], s[i]>> \in less
                        \/ <<s[i], s[j]>> \notin less /\ j < i})
  IN [r \in 1..Len(s) |-> s[CHOOSE i \in DOMAIN s : rank(i) = r]]

\* The elements of a possibly-null vector, as subs.insert appends them.
Elems(vec) == IF vec.null THEN <<>> ELSE vec.v

\* --------------------------------------------------------------------------
\* hierarchy.cc, anonymous namespace
\* --------------------------------------------------------------------------

\* The comparator of get_subs, as the set of the pairs it orders
\* (hierarchy.cc:50-52).
LineNoLess(subs) ==
  {p \in Range(subs) \X Range(subs) : N(p[1]).VpiLineNo < N(p[2]).VpiLineNo}

\* The children collected from a module (hierarchy.cc:23-34).
ModuleSubs(m) == Elems(m.Modules) \o Elems(m.Gen_scope_arrays) \o Elems(m.Task_funcs)

\* The children collected from a gen scope (hierarchy.cc:40-46).
GenScopeSubs(g) == Elems(g.Modules) \o Elems(g.Gen_scope_arrays)

\* The children collected from an object o, unsorted (hierarchy.cc:21-47).
UnsortedSubs(o) ==
  IF o.VpiType = vpiModule THEN ModuleSubs(o)
  ELSE IF o.VpiType = vpiGenScopeArray THEN GenScopeSubs(N(o.Gen_scopes.v[1]))
  ELSE <<>>

SortByLineNo(subs) == StableSort(subs, LineNoLess(subs))

\* get_subs: the children the panel shows under an item, in source order.
get_subs(item) == SortByLineNo(UnsortedSubs(N(item)))

is_expandable(item) == get_subs(item) # <<>>

\* --------------------------------------------------------------------------
\* State of the Hierarchy panel
\* --------------------------------------------------------------------------

VARIABLES
  entries_,          \* the visible list (std::vector of nodes)
  entry_info_,       \* node -> EntryInfo, for every node ever materialised
  line_idx_,         \* selected row, 0-based index into entries_
  scroll_row_,       \* first row shown in the window
  win_h,             \* getmaxy(w_), the height of the window
  win_w,             \* getmaxx(w_), the width of the window
  ui_col_scroll_,    \* columns the rows are scrolled to the left
  ui_max_col_scroll_,\* the limit of ui_col_scroll_ the last Draw computed
  search_text_,      \* text searched for
  search_preview_,   \* search-as-you-type mode
  search_start_col_, \* offset of the match in the selected name, -1 if none
  load_instance_,    \* 'i' was pressed
  load_definition_,  \* 'd' was pressed
  activations,       \* history: node -> number of its "...more..." rows activated
  requested,         \* history: the keys 'i'/'d' pressed since the last ItemForSource
  last               \* history: the last call, its argument, what it returned and
                     \* whether it read entries_ outside its bounds

treeVars == <<entries_, entry_info_, line_idx_, scroll_row_, activations>>
searchVars == <<search_text_, search_preview_, search_start_col_>>
loadVars == <<load_instance_, load_definition_, requested>>
colVars == <<win_w, ui_col_scroll_, ui_max_col_scroll_>>
vars == <<design, top_modules, win_h, colVars, treeVars, searchVars, loadVars, last>>

\* entries_[i] with the 0-based index of the source.
At(entries, i) == entries[i + 1]

\* Index i is not an element of entries_: operator[] of std::vector does not
\* check it, so a read at i is undefined behaviour.
OutOfRange(entries, i) == i < 0 \/ i >= Len(entries)

\* A value-initialised EntryInfo with the designated fields set.
EntryInfo(depth, expandable, more_idx, parent) ==
  [depth |-> depth, expandable |-> expandable, expanded |-> FALSE,
   more_idx |-> more_idx, parent |-> parent]

\* The part of the panel ToggleExpand reads and writes.
Tree == [entries |-> entries_, info |-> entry_info_, line |-> line_idx_,
         scroll |-> scroll_row_, acts |-> activations]

\* vector::insert(entry_it + 1, new_entries): splice after row `line`.
InsertAfter(entries, line, new_entries) ==
  SubSeq(entries, 1, line + 1) \o new_entries \o SubSeq(entries, line + 2, Len(entries))

\* --------------------------------------------------------------------------
\* Hierarchy::ToggleExpand
\* --------------------------------------------------------------------------

\* Mutant: a batch ends one sibling later.
MoreIdxAfterLate(i, stopped_pos) ==
  IF (i - stopped_pos) > kMaxExpandInstances THEN i ELSE 0

\* Pagination cursor given to the i-th further sibling after a "...more..."
\* row that stood at index stopped_pos (hierarchy.cc:182).
MoreIdxAfter(i, stopped_pos) ==
  IF (i - stopped_pos) >= kMaxExpandInstances THEN i ELSE 0

\* The loop of the "...more..." branch; acc = [list, info].
RECURSIVE MoreLoop(_, _, _, _, _)
MoreLoop(i, stopped_pos, parent_subs, info, acc) ==
  IF ~(i < Len(parent_subs)) THEN acc
  ELSE LET new_sub == At(parent_subs, i)
           more_idx == MoreIdxAfter(i, stopped_pos)
           acc1 == [list |-> Append(acc.list, new_sub),
                    info |-> (new_sub :> EntryInfo(info.depth, is_expandable(new_sub),
                                                   more_idx, info.parent)) @@ acc.info]
       \* break: continue past the last sibling
       IN MoreLoop(IF more_idx # 0 THEN Len(parent_subs) ELSE i + 1,
                   stopped_pos, parent_subs, info, acc1)

\* Pagination cursor of a newly created child, the sub_idx-th created in
\* this pass over its parent's children (hierarchy.cc:213).
MoreIdxNew(sub_idx) ==
  IF sub_idx >= kMaxExpandInstances THEN sub_idx ELSE 0

\* Mutant: a child is placed two levels below its parent.
ChildDepthTwo(d) == d + 2

\* Depth of a newly created child of an item at depth d (hierarchy.cc:214).
ChildDepth(d) == d + 1

\* Mutant: expansion is flat, one level only.
ReExpandsNever(info, sub) == FALSE

\* Whether an already known child has its own children spliced again
\* (hierarchy.cc:222).
ReExpands(info, sub) == info[sub].expanded

\* recurse_add_subs, the loop over subs from position j (1-based) on;
\* acc = [list, info].
RECURSIVE RecurseLoop(_, _, _, _, _)
RecurseLoop(item, subs, j, sub_idx, acc) ==
  IF j > Len(subs) THEN acc
  ELSE LET sub == subs[j]
           pushed == [acc EXCEPT !.list = Append(@, sub)]
       IN IF sub \notin DOMAIN acc.info THEN
            LET more_idx == MoreIdxNew(sub_idx)
                acc1 == [pushed EXCEPT !.info =
                           (sub :> EntryInfo(ChildDepth(acc.info[item].depth),
                                             is_expandable(sub), more_idx, item)) @@ @]
            \* break: continue past the last sub
            IN RecurseLoop(item, subs, IF more_idx # 0 THEN Len(subs) + 1 ELSE j + 1,
                           sub_idx + 1, acc1)
          ELSE IF acc.info[sub].more_idx # 0 THEN pushed
          ELSE IF ReExpands(acc.info, sub) THEN
            RecurseLoop(item, subs, j + 1, sub_idx,
                        RecurseLoop(sub, get_subs(sub), 1, 0, pushed))
          ELSE RecurseLoop(item, subs, j + 1, sub_idx, pushed)

recurse_add_subs(item, acc) == RecurseLoop(item, get_subs(item), 1, 0, acc)

\* The end of the rows erased by a collapse of the row at `line`: the first
\* index after it whose depth is not greater (hierarchy.cc:196-199).
RECURSIVE CollapseEnd(_, _, _, _)
CollapseEnd(entries, info, depth, lst) ==
  IF lst # Len(entries) /\ info[At(entries, lst)].depth > depth
  THEN CollapseEnd(entries, info, depth, lst + 1)
  ELSE lst

Min(a, b) == IF a < b THEN a ELSE b

\* Mutant: an expansion on the last line scrolls by up to a whole window.
ExpandScrollPage(line, scroll, size, h) ==
  IF line - scroll = h - 1
  THEN scroll + Min(size - scroll - h, h)
  ELSE scroll

\* The scroll adjustment after an expansion (hierarchy.cc:231-236).
ExpandScroll(line, scroll, size, h) ==
  IF line - scroll = h - 1
  THEN scroll + Min(size - scroll - h, h \div 3)
  ELSE scroll

\* Mutant: the batch is spliced in front of the "...more..." row.
MoreSpliceBefore(t, parent, acc) ==
  [t EXCEPT !.entries = InsertAfter(t.entries, t.line - 1, acc.list),
            !.info = acc.info,
            !.acts = [@ EXCEPT ![parent] = @ + 1]]

\* The "...more..." branch once the loop has built acc = [list, info]
\* (hierarchy.cc:190).
MoreSplice(t, parent, acc) ==
  [t EXCEPT !.entries = InsertAfter(t.entries, t.line, acc.list),
            !.info = acc.info,
            !.acts = [@ EXCEPT ![parent] = @ + 1]]

\* The "...more..." branch (hierarchy.cc:175-191).
ActivateMore(t, entry, info) ==
  MoreSplice(t, info.parent,
             MoreLoop(info.more_idx + 1, info.more_idx, get_subs(info.parent), info,
                      [list |-> <<>>, info |-> [t.info EXCEPT ![entry].more_idx = 0]]))

\* Mutant: a collapse erases the rows and leaves the expanded flag set.
CollapseKeepingFlag(t, entry, lst) ==
  [t EXCEPT !.entries = SubSeq(t.entries, 1, t.line + 1)
                          \o SubSeq(t.entries, lst + 1, Len(t.entries))]

\* The collapse branch, lst the end of the erased rows (hierarchy.cc:200-201).
CollapseTo(t, entry, lst) ==
  [t EXCEPT !.entries = SubSeq(t.entries, 1, t.line + 1)
                          \o SubSeq(t.entries, lst + 1, Len(t.entries)),
            !.info = [@ EXCEPT ![entry].expanded = FALSE]]

\* The expand branch once recurse_add_subs has built acc = [list, info]
\* (hierarchy.cc:228-236).
ExpandSplice(t, entry, h, acc) ==
  [t EXCEPT !.entries = InsertAfter(t.entries, t.line, acc.list),
            !.info = [acc.info EXCEPT ![entry].expanded = TRUE],
            !.scroll = ExpandScroll(t.line, t.scroll, Len(t.entries) + Len(acc.list), h)]

\* ToggleExpand with the selected entry and its info (hierarchy.cc:173-237).
ToggleEntry(t, h, entry, info) ==
  IF info.more_idx # 0 THEN ActivateMore(t, entry, info)
  ELSE IF ~info.expandable THEN t
  ELSE IF info.expanded THEN
    CollapseTo(t, entry, CollapseEnd(t.entries, t.info, info.depth, t.line + 1))
  ELSE
    ExpandSplice(t, entry, h, recurse_add_subs(entry, [list |-> <<>>, info |-> t.info]))

\* ToggleExpand on the panel state t (a record like Tree), window height h.
ToggleExpandOn(t, h) ==
  IF t.entries = <<>> THEN t
  ELSE ToggleEntry(t, h, At(t.entries, t.line), t.info[At(t.entries, t.line)])

\* --------------------------------------------------------------------------
\* Panel (base class): selection and scroll
\* --------------------------------------------------------------------------

\* Panel::SetLineAndScroll: select row l and scroll just enough to show it.
SetLineAndScroll(l, scroll, h) ==
  [line |-> l,
   scroll |-> IF l < scroll THEN l
              ELSE IF l - scroll >= h THEN l - h + 1
              ELSE scroll]

\* --------------------------------------------------------------------------
\* Hierarchy::Hierarchy
\* --------------------------------------------------------------------------

\* The "has sub instances" test of top_sorter (hierarchy.cc:76-77).
HasSubs(a) == ~N(a).Modules.null \/ ~N(a).Gen_scope_arrays.null

\* Mutant: the roots are sorted by name alone.
top_sorter_by_name(a, b) == StrLess(N(a).VpiName, N(b).VpiName)

\* top_sorter(a, b) (hierarchy.cc:73-83).
top_sorter(a, b) ==
  IF HasSubs(a) = HasSubs(b)
  THEN StrLess(N(a).VpiName, N(b).VpiName)
  ELSE HasSubs(a)

\* top_sorter as the set of the pairs of top modules it orders.
TopLess ==
  {p \in Range(top_modules) \X Range(top_modules) : top_sorter(p[1], p[2])}

\* The panel after the top modules are listed and sorted (hierarchy.cc:67-84).
SortedTops ==
  [entries |-> StableSort(top_modules, TopLess),
   info |-> [n \in Range(top_modules) |-> EntryInfo(0, is_expandable(n), 0, Null)],
   line |-> 0, scroll |-> 0, acts |-> [n \in Nodes |-> 0]]

\* A single top module is pre-expanded (hierarchy.cc:87).
PreExpand(t, h) == IF Len(t.entries) = 1 THEN ToggleExpandOn(t, h) ELSE t

\* The panel state the constructor leaves for window height h.
Constructed(h) == PreExpand(SortedTops, h)

NoCall ==
  [op |-> "Hierarchy", arg |-> 0, ok |-> FALSE, node |-> Null, def |-> FALSE,
   oob |-> FALSE]
Call(op, arg) == [NoCall EXCEPT !.op = op, !.arg = arg]

IsTree(t) ==
  /\ entries_ = t.entries
  /\ entry_info_ = t.info
  /\ line_idx_ = t.line
  /\ scroll_row_ = t.scroll
  /\ activations = t.acts

InitWith(kinds, heights) ==
  /\ design \in kinds
  /\ top_modules \in TopOrders(design)
  /\ win_h \in heights
  /\ win_w = MaxWinW
  /\ ui_col_scroll_ = 0
  /\ ui_max_col_scroll_ = 0
  /\ IsTree(Constructed(win_h))
  /\ search_text_ = <<>>
  /\ search_preview_ = FALSE
  /\ search_start_col_ = -1
  /\ load_instance_ = FALSE
  /\ load_definition_ = FALSE
  /\ requested = {}
  /\ last = NoCall

SetTree(t) ==
  /\ entries_' = t.entries
  /\ entry_info_' = t.info
  /\ line_idx_' = t.line
  /\ scroll_row_' = t.scroll
  /\ activations' = t.acts

\* --------------------------------------------------------------------------
\* Hierarchy::SetItem
\* --------------------------------------------------------------------------

\* The objects from item up to the root, gen scopes left out
\* (hierarchy.cc:242-249).
RECURSIVE PathOf(_)
PathOf(item) ==
  IF item = Null THEN <<>>
  ELSE (IF N(item).VpiType # vpiGenScope THEN <<item>> ELSE <<>>)
         \o PathOf(N(item).VpiParent)

\* The loop over the path from path_idx (0-based) down to 0
\* (hierarchy.cc:252-266).
RECURSIVE SetItemLoop(_, _, _, _)
SetItemLoop(path, path_idx, t, h) ==
  IF path_idx < 0 THEN t
  ELSE
    LET item == At(path, path_idx)
        hits == {i \in 0..(Len(t.entries) - 1) : At(t.entries, i) = item}
    IN IF hits = {} THEN SetItemLoop(path, path_idx - 1, t, h)
       ELSE
         LET entry_idx == CHOOSE i \in hits : \A j \in hits : i <= j
             t1 == [t EXCEPT !.line = entry_idx]
             t2 == IF /\ t1.info[item].expandable
                      /\ ~t1.info[item].expanded
                      /\ path_idx # 0
                   THEN ToggleExpandOn(t1, h)
                   ELSE t1
         IN SetItemLoop(path, path_idx - 1, t2, h)

\* SetLineAndScroll(line_idx_) on the panel state t (hierarchy.cc:267).
ScrollToLine(t, h) ==
  [t EXCEPT !.line = SetLineAndScroll(t.line, t.scroll, h).line,
            !.scroll = SetLineAndScroll(t.line, t.scroll, h).scroll]

SetItemPath(t, path, h) == ScrollToLine(SetItemLoop(path, Len(path) - 1, t, h), h)

SetItemOn(t, item, h) == SetItemPath(t, PathOf(item), h)

SetItem ==
  \E item \in Nodes :
    /\ SetTree(SetItemOn(Tree, item, win_h))
    /\ last' = Call("SetItem", item)
    /\ UNCHANGED <<design, top_modules, win_h, colVars, searchVars, loadVars>>

\* --------------------------------------------------------------------------
\* Hierarchy::UIChar
\* --------------------------------------------------------------------------

\* case 'i'
UIChar_i ==
  /\ load_instance_' = TRUE
  /\ requested' = requested \cup {"i"}
  /\ last' = Call("UIChar_i", 0)
  /\ UNCHANGED <<design, top_modules, win_h, colVars, treeVars, searchVars, load_definition_>>

\* case 'd'
UIChar_d ==
  /\ load_definition_' = TRUE
  /\ requested' = requested \cup {"d"}
  /\ last' = Call("UIChar_d", 0)
  /\ UNCHANGED <<design, top_modules, win_h, colVars, treeVars, searchVars, load_instance_>>

\* The while loop of case 'u' (hierarchy.cc:277-279).  It has no lower bound
\* of its own: a result below 0 means it went on to read entries_[-1].
RECURSIVE UpScope(_, _, _, _)
UpScope(entries, info, current_depth, line) ==
  IF line < 0 THEN line
  ELSE IF info[At(entries, line)].depth >= current_depth
  THEN UpScope(entries, info, current_depth, line - 1)
  ELSE line

\* Mutant: 'u' never scrolls.
UpScrollKept(l, scroll) == scroll

\* The scroll after 'u' has moved the selection to row l (hierarchy.cc:280-282).
UpScroll(l, scroll) == IF l - scroll < 0 THEN l ELSE scroll

\* case 'u' with the depth read for the selected row (hierarchy.cc:276-283).
UpFrom(current_depth) ==
  IF current_depth # 0 /\ line_idx_ # 0
  THEN LET l == UpScope(entries_, entry_info_, current_depth, line_idx_)
       IN /\ line_idx_' = l
          /\ scroll_row_' = UpScroll(l, scroll_row_)
          /\ last' = [Call("UIChar_u", 0) EXCEPT !.oob = l < 0]
  ELSE /\ UNCHANGED <<line_idx_, scroll_row_>>
       /\ last' = Call("UIChar_u", 0)

\* case 'u'.  Line 275 reads entries_[line_idx_] unchecked: outside the list
\* the read is undefined, the depth it yields is any value.
UIChar_u ==
  /\ IF OutOfRange(entries_, line_idx_)
     THEN \E garbage_depth \in 0..1 :
            /\ IF garbage_depth # 0 /\ line_idx_ # 0
               THEN line_idx_' \in (-1)..(line_idx_ - 1)
               ELSE UNCHANGED line_idx_
            /\ scroll_row_' = UpScroll(line_idx_', scroll_row_)
            /\ last' = [Call("UIChar_u", 0) EXCEPT !.oob = TRUE]
     ELSE UpFrom(entry_info_[At(entries_, line_idx_)].depth)
  /\ UNCHANGED <<design, top_modules, win_h, colVars, entries_, entry_info_, activations,
                 searchVars, loadVars>>

\* case 'h', left
UIChar_left ==
  /\ ui_col_scroll_' = IF ui_col_scroll_ > 0 THEN ui_col_scroll_ - 1
                       ELSE ui_col_scroll_
  /\ last' = Call("UIChar_left", 0)
  /\ UNCHANGED <<design, top_modules, win_h, win_w, ui_max_col_scroll_, treeVars,
                 searchVars, loadVars>>

\* case 'l', right
UIChar_right ==
  /\ ui_col_scroll_' = IF ui_col_scroll_ < ui_max_col_scroll_ THEN ui_col_scroll_ + 1
                       ELSE ui_col_scroll_
  /\ last' = Call("UIChar_right", 0)
  /\ UNCHANGED <<design, top_modules, win_h, win_w, ui_max_col_scroll_, treeVars,
                 searchVars, loadVars>>

\* case space, enter
UIChar_space ==
  /\ SetTree(ToggleExpandOn(Tree, win_h))
  /\ last' = Call("ToggleExpand", 0)
  /\ UNCHANGED <<design, top_modules, win_h, colVars, searchVars, loadVars>>

\* default: Panel::UIChar, line down
UIChar_down ==
  /\ line_idx_ < Len(entries_) - 1
  /\ line_idx_' = line_idx_ + 1
  /\ scroll_row_' = IF line_idx_' - scroll_row_ >= win_h THEN scroll_row_ + 1
                    ELSE scroll_row_
  /\ last' = Call("UIChar_down", 0)
  /\ UNCHANGED <<design, top_modules, win_h, colVars, entries_, entry_info_, activations,
                 searchVars, loadVars>>

\* default: Panel::UIChar, line up
UIChar_up ==
  /\ line_idx_ > 0
  /\ line_idx_' = line_idx_ - 1
  /\ scroll_row_' = IF line_idx_' < scroll_row_ THEN scroll_row_ - 1
                    ELSE scroll_row_
  /\ last' = Call("UIChar_up", 0)
  /\ UNCHANGED <<design, top_modules, win_h, colVars, entries_, entry_info_, activations,
                 searchVars, loadVars>>

\* --------------------------------------------------------------------------
\* Hierarchy::Search
\* --------------------------------------------------------------------------

\* The step lambda (hierarchy.cc:307-314).
SearchStep(idx, search_down, size) ==
  LET i == idx + (IF search_down THEN 1 ELSE -1)
  IN IF i < 0 THEN size - 1
     ELSE IF i >= size THEN 0
     ELSE i

\* The text Search looks into for a row (hierarchy.cc:318).
SearchedName(entry) == StripWorklib(N(entry).VpiName)

\* The while loop (hierarchy.cc:315-329), entered with idx.
RECURSIVE SearchLoop(_, _, _, _, _, _)
SearchLoop(entries, text, preview, search_down, start_idx, idx) ==
  LET i1 == IF ~preview THEN SearchStep(idx, search_down, Len(entries)) ELSE idx
      pos == Find(SearchedName(At(entries, i1)), text)
  IN IF pos # -1 THEN [found |-> TRUE, idx |-> i1, pos |-> pos]
     ELSE LET i2 == IF preview THEN SearchStep(i1, search_down, Len(entries)) ELSE i1
          IN IF i2 = start_idx THEN [found |-> FALSE, idx |-> i2, pos |-> -1]
             ELSE SearchLoop(entries, text, preview, search_down, start_idx, i2)

\* Smallest visible list Search looks at all (hierarchy.cc:304).
SearchMinSize == 2

\* What Search(search_down) finds; looked is FALSE for the early return.
SearchResult(entries, line, text, preview, search_down) ==
  IF Len(entries) < SearchMinSize
  THEN [looked |-> FALSE, found |-> FALSE, idx |-> line, pos |-> -1]
  ELSE [looked |-> TRUE]
         @@ SearchLoop(entries, text, preview, search_down, line, line)

\* Mutant: a search that fails leaves the selection on the first row.
SearchLineReset(r, line) == IF r.found THEN r.idx ELSE IF r.looked THEN 0 ELSE line

\* The selection Search leaves (hierarchy.cc:321).
SearchLine(r, line) == IF r.found THEN r.idx ELSE line

\* The effect of a Search that found r.
SearchDone(r, search_down) ==
  /\ search_start_col_' = IF r.found THEN r.pos
                           ELSE IF r.looked THEN -1
                           ELSE search_start_col_
  /\ line_idx_' = SearchLine(r, line_idx_)
  /\ scroll_row_' = IF r.found
                    THEN SetLineAndScroll(SearchLine(r, line_idx_), scroll_row_, win_h).scroll
                    ELSE scroll_row_
  /\ last' = [Call("Search", IF search_down THEN 1 ELSE 0) EXCEPT !.ok = r.found]
  /\ UNCHANGED <<design, top_modules, win_h, colVars, entries_, entry_info_, activations,
                 search_text_, search_preview_, loadVars>>

Search ==
  \E search_down \in BOOLEAN :
    SearchDone(SearchResult(entries_, line_idx_, search_text_, search_preview_,
                            search_down),
               search_down)

\* Texts the search box is given: "x", "Dx" and "q".
SearchTexts == {<<120>>, <<68, 120>>, <<113>>}

\* The panel is handed the text of the search box and its mode.
SetSearch ==
  \E text \in SearchTexts, preview \in BOOLEAN :
    /\ search_text_' = text
    /\ search_preview_' = preview
    /\ last' = Call("SetSearch", 0)
    /\ UNCHANGED <<design, top_modules, win_h, colVars, treeVars, search_start_col_, loadVars>>

\* --------------------------------------------------------------------------
\* Hierarchy::Draw
\* --------------------------------------------------------------------------

\* "...more..."
MoreText == <<46, 46, 46, 109, 111, 114, 101, 46, 46, 46>>

\* The label Draw shows for a row after the indent and the expand mark:
\* "...more..." for a row with a pagination cursor, else the instance name
\* (hierarchy.cc:106-108, 122).
Label(info, entry) ==
  IF info[entry].more_idx # 0 THEN MoreText ELSE StripWorklib(N(entry).VpiName)

\* def_name (hierarchy.cc:110-119): "[generate]", "[function]", "[task]",
\* "[<type number>]" for another kind that is not a module (in the designs
\* only vpiGenScope, 134), else the definition name.
DefName(entry) ==
  IF N(entry).VpiType = vpiGenScopeArray
  THEN <<91, 103, 101, 110, 101, 114, 97, 116, 101, 93>>
  ELSE IF N(entry).VpiType = vpiFunction
  THEN <<91, 102, 117, 110, 99, 116, 105, 111, 110, 93>>
  ELSE IF N(entry).VpiType = vpiTask
  THEN <<91, 116, 97, 115, 107, 93>>
  ELSE IF N(entry).VpiType # vpiModule
  THEN <<91, 49, 51, 52, 93>>
  ELSE StripWorklib(VpiDefName(entry))

\* std::string indent(depth, ' ')
Indent(depth) == [i \in 1..depth |-> 32]

\* exp: '-' expanded, '+' collapsed, ' ' not expandable (hierarchy.cc:123).
ExpandMark(info) ==
  IF info.expandable THEN (IF info.expanded THEN 45 ELSE 43) ELSE 32

\* The string s Draw builds for a node row (hierarchy.cc:124).
RowString(info, entry) ==
  Indent(info[entry].depth) \o <<ExpandMark(info[entry])>>
    \o StripWorklib(N(entry).VpiName) \o <<32>> \o DefName(entry)

\* The rows Draw visits (hierarchy.cc:97-99).
DrawnRows ==
  {i \in 0..(Len(entries_) - 1) : i >= scroll_row_ /\ i - scroll_row_ < win_h}

\* The lengths that enter max_string_len: those of the node rows drawn;
\* a "...more..." row does not count (hierarchy.cc:106-125).
DrawnLens ==
  {Len(RowString(entry_info_, At(entries_, i))) :
     i \in {j \in DrawnRows : ~(entry_info_[At(entries_, j)].more_idx # 0)}}

\* max_string_len at the end of the loop, 0 when no node row is drawn.
MaxStringLen ==
  IF DrawnLens = {} THEN 0 ELSE CHOOSE l \in DrawnLens : \A m \in DrawnLens : m <= l

\* Hierarchy::Draw: what it leaves in the panel (hierarchy.cc:167).
Draw ==
  /\ ui_max_col_scroll_' = MaxStringLen - win_w
  /\ last' = Call("Draw", 0)
  /\ UNCHANGED <<design, top_modules, win_h, win_w, ui_col_scroll_, treeVars,
                 searchVars, loadVars>>

\* The terminal changes the width of the window; getmaxyx reports it to the
\* next Draw (hierarchy.cc:93).
Resize ==
  \E w \in ((MaxWinW - 1)..MaxWinW) \ {win_w} :
    /\ win_w' = w
    /\ last' = Call("Resize", w)
    /\ UNCHANGED <<design, top_modules, win_h, ui_col_scroll_, ui_max_col_scroll_,
                   treeVars, searchVars, loadVars>>

\* --------------------------------------------------------------------------
\* Hierarchy::ItemForSource
\* --------------------------------------------------------------------------

\* Mutant: a read leaves the flags as they are.
KeptFlag(flag) == flag

\* The value a read leaves in load_definition_ and load_instance_
\* (hierarchy.cc:336-337).
ClearedFlag(flag) == FALSE

\* The node line 334 reads for the result: entries_[line_idx_], unchecked;
\* outside the list the read is undefined and yields any pointer.
ReadSelected ==
  IF OutOfRange(entries_, line_idx_) THEN Nodes \cup {Null}
  ELSE {At(entries_, line_idx_)}

ItemForSource ==
  /\ IF load_definition_ \/ load_instance_
     THEN /\ \E node \in ReadSelected :
               last' = [Call("ItemForSource", 0) EXCEPT
                          !.ok = TRUE,
                          !.node = node,
                          !.def = load_definition_,
                          !.oob = OutOfRange(entries_, line_idx_)]
          /\ load_definition_' = ClearedFlag(load_definition_)
          /\ load_instance_' = ClearedFlag(load_instance_)
     ELSE /\ last' = Call("ItemForSource", 0)
          /\ UNCHANGED <<load_instance_, load_definition_>>
  /\ requested' = {}
  /\ UNCHANGED <<design, top_modules, win_h, colVars, treeVars, searchVars>>

\* --------------------------------------------------------------------------
\* Specifications
\* --------------------------------------------------------------------------

\* Expansion and navigation of the tree.
Init == InitWith({"wide", "roots"}, 1..MaxWinH)
Next == UIChar_space \/ SetItem \/ UIChar_u \/ UIChar_down \/ UIChar_up
Spec == Init /\ [][Next]_vars

\* Search over lists with and without "...more..." rows.
InitSearch == InitWith({"narrow", "flat", "single"}, {MaxWinH})
NextSearch == UIChar_space \/ UIChar_down \/ UIChar_up \/ SetSearch \/ Search
SpecSearch == InitSearch /\ [][NextSearch]_vars

\* Transfer of the selection to the source panel.
InitSource == InitWith({"narrow", "flat"}, {MaxWinH})
NextSource == UIChar_space \/ UIChar_down \/ UIChar_up \/ UIChar_i \/ UIChar_d
                \/ ItemForSource
SpecSource == InitSource /\ [][NextSource]_vars

\* Expansion in a tall window.
InitScroll == InitWith({"wide"}, {TallWinH})
NextScroll == UIChar_space \/ UIChar_down \/ UIChar_up \/ UIChar_u
SpecScroll == InitScroll /\ [][NextScroll]_vars

\* Search over lists without "...more..." rows that grow and shrink.
InitHighlight == InitWith({"pair", "flat"}, {MaxWinH})
NextHighlight == UIChar_space \/ UIChar_down \/ UIChar_up \/ SetSearch \/ Search
SpecHighlight == InitHighlight /\ [][NextHighlight]_vars

\* Horizontal scrolling between redraws.
InitDraw == InitWith({"narrow"}, {MaxWinH})
NextDraw == UIChar_space \/ UIChar_down \/ UIChar_up \/ UIChar_left \/ UIChar_right
              \/ Draw \/ Resize
SpecDraw == InitDraw /\ [][NextDraw]_vars

\* Every input of the panel, over a list with rows and over an empty list.
InitIndex == InitWith({"empty", "narrow"}, {MaxWinH})
NextIndex == UIChar_space \/ SetItem \/ UIChar_u \/ UIChar_down \/ UIChar_up
               \/ UIChar_i \/ UIChar_d \/ ItemForSource \/ SetSearch \/ Search
SpecIndex == InitIndex /\ [][NextIndex]_vars

TypeOK ==
  /\ entries_ \in Seq(Nodes)
  /\ line_idx_ \in 0..(Len(entries_) - 1)
  /\ \A i \in DOMAIN entries_ : entries_[i] \in DOMAIN entry_info_

\* --------------------------------------------------------------------------
\* Vocabulary of the properties
\* --------------------------------------------------------------------------

Depth(i) == entry_info_[At(entries_, i)].depth
Selected == At(entries_, line_idx_)
IsMore(info, n) == info[n].more_idx # 0
Expanded(info, n) == n \in DOMAIN info /\ info[n].expanded
Visible(n) == n \in Range(entries_)

\* What a row shows of the tree: its node, whether it is drawn as
\* "...more...", and its expand mark.
RowsOf(t) ==
  [i \in 1..Len(t.entries) |->
     <<t.entries[i], t.info[t.entries[i]].more_idx # 0, t.info[t.entries[i]].expanded>>]

\* --------------------------------------------------------------------------
\* C1
\* --------------------------------------------------------------------------

\* C1: in every reachable state, when the selected row is expandable and not
\* a "...more..." row, two ToggleExpand calls in a row leave the visible list
\* with the same rows, the same placeholders and the same expanded flags (of
\* every node known before); and after a collapse followed by an expansion
\* every re-spliced row whose expanded flag is true is directly followed by
\* its first child.
C1_RoundTrip ==
  LET info == entry_info_[Selected]
      t1 == ToggleExpandOn(Tree, win_h)
      t2 == ToggleExpandOn(t1, win_h)
  IN (info.expandable /\ info.more_idx = 0) =>
       /\ t1.entries # entries_
       /\ t2.entries = entries_
       /\ RowsOf(t2) = RowsOf(Tree)
       /\ \A n \in DOMAIN entry_info_ :
            /\ t2.info[n].expanded = entry_info_[n].expanded
            /\ t2.info[n].more_idx = entry_info_[n].more_idx
       /\ info.expanded =>
            \A i \in DOMAIN t2.entries :
              t2.info[t2.entries[i]].expanded =>
                /\ i < Len(t2.entries)
                /\ t2.entries[i + 1] = get_subs(t2.entries[i])[1]

\* A collapse and re-expansion of the root has just restored a nested
\* expansion (a row two levels down) and a "...more..." row.
C1_Witness ==
  /\ last.op = "ToggleExpand"
  /\ line_idx_ = 0
  /\ entry_info_[Selected].expanded
  /\ \E i \in 0..(Len(entries_) - 1) : Depth(i) = 2
  /\ \E i \in DOMAIN entries_ : IsMore(entry_info_, entries_[i])

\* --------------------------------------------------------------------------
\* C2
\* --------------------------------------------------------------------------

\* C2: in every reachable state the first row has depth 0 and each row is at
\* most one level deeper than the row before it.
C2_DepthAdjacent ==
  /\ entries_ # <<>> => Depth(0) = 0
  /\ \A i \in 0..(Len(entries_) - 2) :
       \/ Depth(i + 1) = Depth(i) + 1
       \/ Depth(i + 1) <= Depth(i)

\* A row three levels down is shown and the row after it returns two or more
\* levels up.
C2_Witness ==
  \E i \in 0..(Len(entries_) - 2) :
    /\ Depth(i) = 3
    /\ Depth(i + 1) < Depth(i) - 1
    /\ Depth(i - 1) = 2

\* --------------------------------------------------------------------------
\* C3
\* --------------------------------------------------------------------------

\* The rows of the visible list that are children of n.
KidRows(n) == SelectSeq(entries_, LAMBDA e : entry_info_[e].parent = n)

\* An expanded, visible node with 3K+1 children.
Paged(n) ==
  /\ Len(get_subs(n)) = 3 * K + 1
  /\ Visible(n)
  /\ entry_info_[n].expanded

\* The children of n shown are its first `count` children as node rows, in
\* the adapter's order, followed by exactly one "...more..." row iff `more`.
Shown(n, count, more) ==
  LET rows == KidRows(n)
  IN /\ Len(rows) = count + (IF more THEN 1 ELSE 0)
     /\ rows = SubSeq(get_subs(n), 1, Len(rows))
     /\ \A i \in 1..Len(rows) : IsMore(entry_info_, rows[i]) <=> (more /\ i = count + 1)

\* C3 as claimed: a node with 3K+1 children shows K node rows and one
\* "...more..." row after its first expansion, and all 3K+1 children with no
\* "...more..." row once two "...more..." rows have been activated.
C3_Original ==
  \A n \in Nodes :
    Paged(n) =>
      /\ activations[n] = 0 => Shown(n, K, TRUE)
      /\ activations[n] = 2 => Shown(n, 3 * K + 1, FALSE)

\* C3 amended: a node with 3K+1 children shows K node rows and one
\* "...more..." row after its first expansion; every activation turns the
\* placeholder into a node row and adds K rows, so after one and two
\* activations 2K and 3K node rows are followed by one "...more..." row, and
\* only the third activation shows all 3K+1 children with no "...more..." row.
C3_Pagination ==
  \A n \in Nodes :
    Paged(n) =>
      /\ activations[n] \in 0..3
      /\ activations[n] = 0 => Shown(n, K, TRUE)
      /\ activations[n] = 1 => Shown(n, 2 * K, TRUE)
      /\ activations[n] = 2 => Shown(n, 3 * K, TRUE)
      /\ activations[n] = 3 => Shown(n, 3 * K + 1, FALSE)

\* The third "...more..." row of a node with 3K+1 children has just been
\* activated by ToggleExpand.
C3_Witness ==
  /\ last.op = "ToggleExpand"
  /\ \E n \in Nodes :
       /\ Paged(n)
       /\ activations[n] = 3
       /\ At(entries_, line_idx_) = get_subs(n)[3 * K + 1]

\* --------------------------------------------------------------------------
\* C4, C5, C6
\* --------------------------------------------------------------------------

\* Row i shows a label that contains the search text.
Matches(i) == Find(Label(entry_info_, At(entries_, i)), search_text_) # -1

SomeMatch == \E i \in 0..(Len(entries_) - 1) : Matches(i)

\* The k-th row after s in the cyclic order of the direction.
Cyclic(s, k, down) ==
  LET len == Len(entries_)
  IN IF down THEN (s + k) % len ELSE (s + len - k) % len

\* The first row with a matching label in the cyclic order s+1, ..., s
\* (down) or s-1, ..., s (up).
CyclicTarget(s, down) ==
  LET ks == {k \in 1..Len(entries_) : Matches(Cyclic(s, k, down))}
  IN Cyclic(s, CHOOSE k \in ks : \A j \in ks : k <= j, down)

\* C4 as claimed: in non-preview mode, when some row's label contains the
\* search text, Search moves the selection to the first matching row in the
\* cyclic order after (down) or before (up) the selection.
C4_Claim ==
  [][(last'.op = "Search" /\ ~search_preview_ /\ SomeMatch) =>
       line_idx_' = CyclicTarget(line_idx_, last'.arg = 1)]_vars

\* C5 as claimed: Search returns true if and only if some row's label
\* contains the search text, whatever the length of the list and the mode;
\* in preview mode the selected row is checked first, so a match on it keeps
\* the selection.
C5_Claim ==
  [][last'.op = "Search" =>
       /\ last'.ok <=> SomeMatch
       /\ (search_preview_ /\ Matches(line_idx_)) => line_idx_' = line_idx_]_vars

\* C6: a Search that returns false leaves the selection, the row scroll, the
\* visible list and every EntryInfo as they were; no Search changes the
\* visible list or an EntryInfo.
C6_FailedSearchFrame ==
  [][last'.op = "Search" =>
       /\ UNCHANGED <<entries_, entry_info_>>
       /\ ~last'.ok => UNCHANGED <<line_idx_, scroll_row_>>]_vars

\* A search has just failed on a list of several rows, some of them
\* expanded children, with the selection below the first row.
C6_Witness ==
  /\ last.op = "Search"
  /\ ~last.ok
  /\ search_start_col_ = -1
  /\ line_idx_ > 0
  /\ Len(entries_) > 2
  /\ \E n \in DOMAIN entry_info_ : entry_info_[n].expanded

\* --------------------------------------------------------------------------
\* C7, C8
\* --------------------------------------------------------------------------

\* The objects the panel can show: everything but the gen scopes, which
\* SetItem and get_subs skip.
Shown_Nodes == {n \in Nodes : N(n).VpiType # vpiGenScope}

\* C7 as claimed: after SetItem(node), for any node of the design and from
\* any reachable state, the selected row is that node, shown as a node row
\* and not as a "...more..." row.
C7_Claim ==
  (last.op = "SetItem" /\ last.arg \in Shown_Nodes) =>
    /\ Selected = last.arg
    /\ entry_info_[Selected].more_idx = 0

ProperAncestors(item) == Range(Tail(PathOf(item)))

\* C8 as claimed: SetItem(node) leaves every proper ancestor of node
\* expanded, changes the expanded flag of no other node, and collapses none.
C8_Claim ==
  [][(last'.op = "SetItem" /\ last'.arg \in Shown_Nodes) =>
       /\ \A a \in ProperAncestors(last'.arg) : Expanded(entry_info_', a)
       /\ \A n \in Nodes \ ProperAncestors(last'.arg) :
            Expanded(entry_info_', n) = Expanded(entry_info_, n)
       /\ \A n \in Nodes : Expanded(entry_info_, n) => Expanded(entry_info_', n)]_vars

\* --------------------------------------------------------------------------
\* C9
\* --------------------------------------------------------------------------

\* C9: an ItemForSource call made after one or more 'i'/'d' presses returns
\* the selected node, with the definition flag true iff 'd' was among the
\* keys pressed since the last call, and clears both flags; a call made with
\* no press since the last call returns nothing.  A press only sets a flag.
C9_AtMostOnce ==
  [][/\ last'.op = "ItemForSource" =>
          /\ last'.ok <=> requested # {}
          /\ last'.ok => /\ last'.node = Selected
                         /\ last'.def <=> "d" \in requested
          /\ ~load_instance_' /\ ~load_definition_'
     /\ last'.op \in {"UIChar_i", "UIChar_d"} =>
          /\ load_instance_' \/ load_definition_'
          /\ UNCHANGED <<entries_, line_idx_>>]_vars

\* Both keys were pressed, 'i' more than once, and one read has delivered
\* the selected row, a child row, with the definition flag.
C9_Witness ==
  /\ last.op = "ItemForSource"
  /\ last.ok
  /\ last.def
  /\ last.node = Selected
  /\ line_idx_ > 0
  /\ ~load_instance_
  /\ ~load_definition_

\* --------------------------------------------------------------------------
\* C10
\* --------------------------------------------------------------------------

\* Position of root r in a sequence of roots.
Pos(seq, r) == CHOOSE i \in DOMAIN seq : seq[i] = r

\* The state the constructor leaves.
JustConstructed == last.op = "Hierarchy"

\* The roots are ordered by group (the roots in `first` before the others),
\* inside a group by name, equal names in the order of TopModules().
RootsOrdered(first) ==
  \A a, b \in Range(top_modules) :
    LET before == Pos(entries_, a) < Pos(entries_, b)
    IN /\ (a \in first /\ b \notin first) => before
       /\ ((a \in first) = (b \in first)) =>
            /\ StrLess(N(a).VpiName, N(b).VpiName) => before
            /\ (N(a).VpiName = N(b).VpiName /\ Pos(top_modules, a) < Pos(top_modules, b))
                 => before

\* C10 as claimed: in the initial visible list every root with at least one
\* child (of those get_subs reports) precedes every childless root; inside
\* each group the roots are in lexical order of name, equal names in their
\* original order.
C10_Original ==
  JustConstructed =>
    RootsOrdered({r \in Range(top_modules) : get_subs(r) # <<>>})

\* C10 amended: in the initial visible list every root that has a
\* sub-module list or a generate-array list precedes every root that has
\* neither (a root with only tasks or functions below it is expandable but
\* sorts with the childless roots); inside each group the roots are in
\* lexical order of name, equal names in their original order.
C10_RootOrder ==
  JustConstructed =>
    RootsOrdered({r \in Range(top_modules) :
                    ~N(r).Modules.null \/ ~N(r).Gen_scope_arrays.null})

\* Four roots were constructed from an order that lists the childless root
\* before the equally named root with a task, and the root "work@c" before
\* the root "work@b".
C10_Witness ==
  /\ JustConstructed
  /\ design = "roots"
  /\ top_modules = <<1, 3, 4, 2>>
  /\ entries_ = <<4, 1, 3, 2>>

\* --------------------------------------------------------------------------
\* C11
\* --------------------------------------------------------------------------

\* C11 as claimed: for every root set, the empty one included, and every
\* sequence of inputs, no operation reads entries_ at an index outside
\* [0, len(entries_) - 1].
C11_Claim == ~last.oob

\* --------------------------------------------------------------------------
\* C12
\* --------------------------------------------------------------------------

\* The line of the window the selection is on.
LineInViewport == line_idx_ - scroll_row_

\* C12: with a fixed window height h >= 1, after every ToggleExpand (expand,
\* collapse, "...more..." activation) and every 'u', scroll_row_ >= 0 and the
\* selection is on a line of the window: 0 <= line_idx_ - scroll_row_ <= h - 1.
C12_InViewport ==
  last.op \in {"ToggleExpand", "UIChar_u"} =>
    /\ scroll_row_ >= 0
    /\ 0 <= LineInViewport
    /\ LineInViewport <= win_h - 1

\* A node on the last line of a window of three lines or more has just been
\* expanded and the list was scrolled down for it.
C12_Witness ==
  /\ last.op = "ToggleExpand"
  /\ win_h >= 3
  /\ entry_info_[Selected].expanded
  /\ scroll_row_ > 0
  /\ LineInViewport = win_h - 1 - (win_h \div 3)

\* --------------------------------------------------------------------------
\* C13
\* --------------------------------------------------------------------------

\* The selected row is a collapsed, expandable node row: ToggleExpand will
\* expand it.
Expanding ==
  /\ entry_info_[Selected].more_idx = 0
  /\ entry_info_[Selected].expandable
  /\ ~entry_info_[Selected].expanded

\* C13 as claimed: when a collapsed node on the last line of the window is
\* expanded and rows_added rows are spliced in, scroll_row_ grows by exactly
\* min(rows_added, win_h / 3), however many rows were below the window
\* before; when the selection is not on the last line scroll_row_ is
\* unchanged.
C13_Claim ==
  [][(last'.op = "ToggleExpand" /\ Expanding) =>
       scroll_row_' = scroll_row_ +
         (IF LineInViewport = win_h - 1
          THEN Min(Len(entries_') - Len(entries_), win_h \div 3)
          ELSE 0)]_vars

\* --------------------------------------------------------------------------
\* C14
\* --------------------------------------------------------------------------

\* The children of n that the step splices into the visible list as node
\* rows: shown after the step, not shown before it.  The "...more..." row
\* that may end them is not counted.
SplicedKids(n) ==
  {c \in Range(entries_') \ Range(entries_) :
     entry_info_'[c].parent = n /\ entry_info_'[c].more_idx = 0}

\* C14 as claimed: every single ToggleExpand call (first expansion,
\* re-expansion after a collapse, "...more..." activation) splices at most K
\* children of any one node into the visible list, however many of that
\* node's children earlier steps had materialised.
C14_Claim ==
  [][last'.op = "ToggleExpand" =>
       \A n \in Nodes : Cardinality(SplicedKids(n)) <= K]_vars

\* --------------------------------------------------------------------------
\* C15
\* --------------------------------------------------------------------------

\* The step is a ToggleExpand on a "...more..." row.
Activating == last'.op = "ToggleExpand" /\ IsMore(entry_info_, Selected)

\* The rows the step splices in after the selected row.
Batch == SubSeq(entries_', line_idx_ + 2, line_idx_ + 1 + Len(entries_') - Len(entries_))

\* The index of the selected "...more..." row in its parent's children.
StoppedPos == entry_info_[Selected].more_idx

\* The children of the placeholder's parent.
Siblings == get_subs(entry_info_[Selected].parent)

\* The batch ends with a new "...more..." row.
EndsWithMore == Batch # <<>> /\ IsMore(entry_info_', Batch[Len(Batch)])

\* What an activation does whatever ends the batch: no expanded flag
\* changes, the placeholder becomes a node row, the rows before it and after
\* it stay as they were, the batch has the depth and the parent of the
\* placeholder, and only its last row can be a "...more..." row.
ResumesOnly ==
  /\ \A n \in DOMAIN entry_info_' :
       entry_info_'[n].expanded = Expanded(entry_info_, n)
  /\ ~IsMore(entry_info_', Selected)
  /\ SubSeq(entries_', 1, line_idx_ + 1) = SubSeq(entries_, 1, line_idx_ + 1)
  /\ SubSeq(entries_', line_idx_ + 2 + Len(Batch), Len(entries_'))
       = SubSeq(entries_, line_idx_ + 2, Len(entries_))
  /\ \A i \in DOMAIN Batch :
       /\ entry_info_'[Batch[i]].depth = entry_info_[Selected].depth
       /\ entry_info_'[Batch[i]].parent = entry_info_[Selected].parent
       /\ IsMore(entry_info_', Batch[i]) => i = Len(Batch)

\* C15 as claimed: activating a "...more..." row only resumes pagination,
\* and the batch ends with a new "...more..." row only if further siblings
\* remain unmaterialised after the batch, that is, some child of the parent
\* has no row.
C15_Original ==
  [][Activating =>
       /\ ResumesOnly
       /\ EndsWithMore => \E c \in Range(Siblings) : c \notin Range(entries_')]_vars

\* C15 amended: activating a "...more..." row only resumes pagination; the
\* batch is the next siblings after the placeholder in the adapter's order,
\* K of them or all that are left if fewer, and it ends with a new
\* "...more..." row if and only if K or more siblings follow the
\* placeholder.  That row stands for the K-th of them, so it is there also
\* when that sibling is the last child and every child has a row.
C15_MoreResumes ==
  [][Activating =>
       /\ ResumesOnly
       /\ Batch = SubSeq(Siblings, StoppedPos + 2,
                         Min(StoppedPos + 1 + K, Len(Siblings)))
       /\ EndsWithMore <=> Len(Siblings) - (StoppedPos + 1) >= K]_vars

\* The second "...more..." row of a node with 3K+1 children has just been
\* activated: the batch ended with a "...more..." row for the last child,
\* and every child has a row.
C15_Witness ==
  /\ last.op = "ToggleExpand"
  /\ \E n \in Nodes :
       /\ Paged(n)
       /\ activations[n] = 2
       /\ Selected = get_subs(n)[2 * K + 1]
       /\ ~IsMore(entry_info_, Selected)
       /\ At(entries_, line_idx_ + K) = get_subs(n)[3 * K + 1]
       /\ IsMore(entry_info_, get_subs(n)[3 * K + 1])
       /\ Range(get_subs(n)) \subseteq Range(entries_)

\* --------------------------------------------------------------------------
\* C16
\* --------------------------------------------------------------------------

\* The rows below row i (0-based): from i+1 up to, not including, the next
\* row whose depth is not greater than that of row i.
BelowEnd(i) ==
  LET ends == {j \in (i + 1)..(Len(entries_) - 1) : Depth(j) <= Depth(i)}
  IN IF ends = {} THEN Len(entries_) ELSE CHOOSE j \in ends : \A k \in ends : j <= k

\* Of the rows below row i, those one level deeper, in the order of the list.
KidsBelow(i) ==
  LET js == {j \in (i + 1)..(BelowEnd(i) - 1) : Depth(j) = Depth(i) + 1}
      nth(r) == CHOOSE j \in js : Cardinality({k \in js : k < j}) = r - 1
  IN [r \in 1..Cardinality(js) |-> At(entries_, nth(r))]

\* Row i is an expanded node row and the rows below it are the first
\* children of its node in the adapter's order, each cached with that
\* parent; only the last of them can be a "...more..." row, and it is one
\* unless they are all the children.
FlattensKids(i) ==
  LET n == At(entries_, i)
      kids == KidsBelow(i)
  IN /\ kids # <<>>
     /\ At(entries_, i + 1) = kids[1]
     /\ Len(kids) <= Len(get_subs(n))
     /\ kids = SubSeq(get_subs(n), 1, Len(kids))
     /\ \A r \in DOMAIN kids :
          /\ entry_info_[kids[r]].parent = n
          /\ IsMore(entry_info_, kids[r]) => r = Len(kids)
     /\ Len(kids) < Len(get_subs(n)) => IsMore(entry_info_, kids[Len(kids)])

\* C16: in every reachable state, the rows below a visible expanded node row
\* are a prefix of the children of its node in the adapter's order (each
\* followed by its own rows), ending with a "...more..." row when the prefix
\* is not all the children; the row after a node row that is not expanded,
\* or after a "...more..." row, is not deeper than it; and no node has two
\* rows.
C16_ValidFlattening ==
  /\ \A i \in 0..(Len(entries_) - 1) :
       IF entry_info_[At(entries_, i)].expanded /\ ~IsMore(entry_info_, At(entries_, i))
       THEN FlattensKids(i)
       ELSE i + 1 < Len(entries_) => Depth(i + 1) <= Depth(i)
  /\ Cardinality(Range(entries_)) = Len(entries_)

\* The list shows a nested expansion three levels deep next to a paginated
\* node that had a "...more..." row activated and still ends with one.
C16_Witness ==
  /\ \E i \in 0..(Len(entries_) - 1) : Depth(i) = 3
  /\ \E n \in Nodes :
       /\ Paged(n)
       /\ activations[n] = 1
       /\ \E i \in 0..(Len(entries_) - 1) :
            IsMore(entry_info_, At(entries_, i)) /\ entry_info_[At(entries_, i)].parent = n

\* --------------------------------------------------------------------------
\* C17
\* --------------------------------------------------------------------------

\* C17: when the selected row has depth d > 0, 'u' leaves the selection on
\* the nearest row above whose depth is less than d; that row is the cached
\* parent of the row that was selected (a "...more..." row included); the
\* visible list and the cache are unchanged; scroll_row_ becomes the new
\* selected index if that row was above the window and is otherwise
\* unchanged.  When d = 0 or the selection is row 0, 'u' changes nothing.
C17_GoToParent ==
  [][last'.op = "UIChar_u" =>
       /\ UNCHANGED <<entries_, entry_info_>>
       /\ IF Depth(line_idx_) > 0 /\ line_idx_ # 0
          THEN /\ line_idx_' \in 0..(line_idx_ - 1)
               /\ entry_info_[At(entries_, line_idx_')].depth < Depth(line_idx_)
               /\ \A j \in (line_idx_' + 1)..(line_idx_ - 1) :
                    Depth(j) >= Depth(line_idx_)
               /\ At(entries_, line_idx_') = entry_info_[Selected].parent
               /\ scroll_row_' = IF line_idx_' < scroll_row_ THEN line_idx_'
                                 ELSE scroll_row_
          ELSE UNCHANGED <<line_idx_, scroll_row_>>]_vars

\* 'u' has just moved the selection up to a row below the root, an expanded
\* parent that was above a window of one line, and the scroll followed it.
C17_Witness ==
  /\ last.op = "UIChar_u"
  /\ win_h = 1
  /\ Depth(line_idx_) >= 1
  /\ entry_info_[Selected].expanded
  /\ scroll_row_ = line_idx_

\* --------------------------------------------------------------------------
\* C18
\* --------------------------------------------------------------------------

Max(a, b) == IF a > b THEN a ELSE b

\* C18 as claimed: after any sequence of left/right commands interleaved
\* with redraws, expansions, collapses and changes of the window width,
\* 0 <= ui_col_scroll_ <= max(0, ui_max_col_scroll_), ui_max_col_scroll_
\* being the value the most recent Draw computed.
C18_Claim ==
  /\ 0 <= ui_col_scroll_
  /\ ui_col_scroll_ <= Max(0, ui_max_col_scroll_)

\* --------------------------------------------------------------------------
\* C19
\* --------------------------------------------------------------------------

\* C19 as claimed: every Search that returns false, on a visible list of any
\* length and whatever an earlier successful search recorded, leaves
\* search_start_col_ = -1; every Search that returns true leaves
\* search_start_col_ equal to the offset of the first occurrence of the
\* search text in the label of the newly selected row.
C19_Claim ==
  [][last'.op = "Search" =>
       /\ ~last'.ok => search_start_col_' = -1
       /\ last'.ok =>
            search_start_col_' =
              Find(Label(entry_info_, At(entries_, line_idx_')), search_text_)]_vars

\* --------------------------------------------------------------------------
\* C20
\* --------------------------------------------------------------------------

\* C20 as claimed: Search matches displayed labels only.  The row a
\* successful Search selects shows a label that contains the search text; a
\* "...more..." row shows "...more...", so it is never selected on the
\* strength of the name of the node it stands for.
C20_Claim ==
  (last.op = "Search" /\ last.ok) =>
    Find(Label(entry_info_, Selected), search_text_) # -1

====
